---- MODULE Spec2Model ----
(***************************************************************************)
(* A model of the Meta CAPI event connector (src/main.py): the pipeline    *)
(* extract_client_info -> validate_and_clean_data -> hash_user_data ->     *)
(* build_meta_payload -> requests.post that process_event runs for every   *)
(* inbound request.                                                        *)
(*                                                                         *)
(* Python strings are sequences of one-character strings, so that strip,   *)
(* lower, split, the _fbp pattern and the address parser are computed      *)
(* character by character.  Every other Python value is a record           *)
(* [t, s, n, e]: t the type tag, s the characters of a str, n and e the    *)
(* number n * 10^e of an int (e = 0) or a float.  A dict is a function     *)
(* from its keys to such values.                                           *)
(***************************************************************************)
EXTENDS Integers, Sequences, FiniteSets, TLC

VARIABLES req, outbox, received

vars == <<req, outbox, received>>

(***************************************************************************)
(* Python values                                                           *)
(***************************************************************************)
None == [t |-> "None", s |-> <<>>, n |-> 0, e |-> 0]

Str(s) == [t |-> "str", s |-> s, n |-> 0, e |-> 0]

PyInt(n) == [t |-> "int", s |-> <<>>, n |-> n, e |-> 0]

\* a list of n elements (s: its first element), e.g. content_ids
List(s, n) == [t |-> "list", s |-> s, n |-> n, e |-> 0]

RECURSIVE Normalize(_, _)
\* the float m * 10^e with the trailing zeros of m moved into e
Normalize(m, e) ==
  IF m = 0 THEN <<0, 0>>
  ELSE IF m % 10 = 0 THEN Normalize(m \div 10, e + 1)
  ELSE <<m, e>>

Float(m, e) ==
  [t |-> "float", s |-> <<>>, n |-> Normalize(m, e)[1], e |-> Normalize(m, e)[2]]

\* nan, inf, -inf
FloatSpecial(name) == [t |-> "float", s |-> name, n |-> 0, e |-> 0]

\* hashlib.sha256(b).hexdigest(): the digest is kept symbolic, as the
\* 64-character str determined by the bytes b (SHA-256 taken collision free)
Sha256Hex(b) == [t |-> "sha256", s |-> b, n |-> 0, e |-> 0]

IsStr(v) == v.t \in {"str", "sha256"}

\* bool(v): what `if v`, `not v` and `a or b` test
Truthy(v) ==
  CASE v.t = "None" -> FALSE
    [] v.t = "str" -> v.s # <<>>
    [] v.t = "sha256" -> TRUE
    [] v.t = "int" -> v.n # 0
    [] v.t = "float" -> v.n # 0 \/ v.s # <<>>
    [] v.t = "list" -> v.n # 0

\* a or b
Or(a, b) == IF Truthy(a) THEN a ELSE b

EmptyDict == [k \in {} |-> None]

\* d.get(k, default)
Get(d, k, default) == IF k \in DOMAIN d THEN d[k] ELSE default

\* d[k] = v
DictSet(d, k, v) == [x \in DOMAIN d \cup {k} |-> IF x = k THEN v ELSE d[x]]

\* {k: d[k] for k in keep}
Restrict(d, keep) == [k \in keep |-> d[k]]

(***************************************************************************)
(* str methods                                                             *)
(***************************************************************************)
Whitespace == {" ", "\t", "\n", "\r", "\f"}

Digits == <<"0", "1", "2", "3", "4", "5", "6", "7", "8", "9">>

UpperCase ==
  <<"A", "B", "C", "D", "E", "F", "G", "H", "I", "J", "K", "L", "M",
    "N", "O", "P", "Q", "R", "S", "T", "U", "V", "W", "X", "Y", "Z">>

LowerCase ==
  <<"a", "b", "c", "d", "e", "f", "g", "h", "i", "j", "k", "l", "m",
    "n", "o", "p", "q", "r", "s", "t", "u", "v", "w", "x", "y", "z">>

IsDigit(c) == \E i \in DOMAIN Digits : Digits[i] = c

DigitValue(c) == (CHOOSE i \in DOMAIN Digits : Digits[i] = c) - 1

IsHexDigit(c) ==
  \/ IsDigit(c)
  \/ \E i \in 1..6 : c = UpperCase[i] \/ c = LowerCase[i]

LowerChar(c) ==
  IF \E i \in DOMAIN UpperCase : UpperCase[i] = c
  THEN LowerCase[CHOOSE i \in DOMAIN UpperCase : UpperCase[i] = c]
  ELSE c

\* s.lower()
Lower(s) == [i \in 1..Len(s) |-> LowerChar(s[i])]

RECURSIVE LStrip(_)
LStrip(s) ==
  IF s # <<>> /\ Head(s) \in Whitespace THEN LStrip(Tail(s)) ELSE s

RECURSIVE RStrip(_)
RStrip(s) ==
  IF s # <<>> /\ s[Len(s)] \in Whitespace
  THEN RStrip(SubSeq(s, 1, Len(s) - 1))
  ELSE s

\* s.strip()
Strip(s) == RStrip(LStrip(s))

RECURSIVE Split(_, _)
\* s.split(sep), sep one character
Split(s, sep) ==
  IF \E i \in 1..Len(s) : s[i] = sep
  THEN LET i == CHOOSE j \in 1..Len(s) :
                  s[j] = sep /\ \A k \in 1..(j - 1) : s[k] # sep
       IN  <<SubSeq(s, 1, i - 1)>> \o Split(SubSeq(s, i + 1, Len(s)), sep)
  ELSE <<s>>

AllDigits(s) == \A i \in 1..Len(s) : IsDigit(s[i])

RECURSIVE DecimalValue(_)
\* int(s) of a string of digits
DecimalValue(s) ==
  IF s = <<>> THEN 0
  ELSE 10 * DecimalValue(SubSeq(s, 1, Len(s) - 1)) + DigitValue(s[Len(s)])

RECURSIVE DecimalDigits(_)
\* str(n), n >= 0
DecimalDigits(n) ==
  IF n < 10 THEN <<Digits[n + 1]>>
  ELSE DecimalDigits(n \div 10) \o <<Digits[(n % 10) + 1]>>

RECURSIVE Zeros(_)
Zeros(k) == IF k <= 0 THEN <<>> ELSE <<"0">> \o Zeros(k - 1)

\* str(v), for the values str() is applied to (line 130)
PyStr(v) ==
  CASE IsStr(v) -> v.s
    [] v.t = "None" -> <<"N", "o", "n", "e">>
    [] v.t = "int" ->
         (IF v.n < 0 THEN <<"-">> ELSE <<>>)
           \o DecimalDigits(IF v.n < 0 THEN -v.n ELSE v.n)
    [] v.t = "float" ->
         IF v.s # <<>> THEN v.s
         ELSE LET a == IF v.n < 0 THEN -v.n ELSE v.n
                  sign == IF v.n < 0 THEN <<"-">> ELSE <<>>
                  d == DecimalDigits(a)
              IN  IF v.e >= 0
                  THEN sign \o d \o Zeros(v.e) \o <<".", "0">>
                  ELSE LET p == Zeros((1 - v.e) - Len(d)) \o d
                       IN  sign \o SubSeq(p, 1, Len(p) + v.e) \o <<".">>
                             \o SubSeq(p, Len(p) + v.e + 1, Len(p))
    [] v.t = "list" -> <<"[", "'">> \o v.s \o <<"'", "]">>

\* float(x) of a str x (line 136): surrounding whitespace, a sign, then
\* inf / infinity / nan in any case or a decimal literal  digits [. digits].
\* Exponents and digit-group underscores are not in the enumerated inputs.
\* The result is [ok |-> FALSE] for ValueError.
ParseFloat(x) ==
  LET s == Strip(x)
      neg == s # <<>> /\ Head(s) = "-"
      body == IF s # <<>> /\ Head(s) \in {"+", "-"} THEN Tail(s) ELSE s
      parts == Split(body, ".")
      ip == parts[1]
      fp == IF Len(parts) = 2 THEN parts[2] ELSE <<>>
      m == DecimalValue(ip \o fp)
  IN  IF Lower(body) \in {<<"i", "n", "f">>,
                          <<"i", "n", "f", "i", "n", "i", "t", "y">>}
      THEN [ok |-> TRUE,
            val |-> FloatSpecial(IF neg THEN <<"-", "i", "n", "f">>
                                 ELSE <<"i", "n", "f">>)]
      ELSE IF Lower(body) = <<"n", "a", "n">>
      THEN [ok |-> TRUE, val |-> FloatSpecial(<<"n", "a", "n">>)]
      ELSE IF /\ Len(parts) <= 2
              /\ AllDigits(ip) /\ AllDigits(fp)
              /\ ip \o fp # <<>>
      THEN [ok |-> TRUE, val |-> Float(IF neg THEN -m ELSE m, -Len(fp))]
      ELSE [ok |-> FALSE, val |-> None]

\* float(v) inside try/except (ValueError, TypeError), lines 135-139
ToFloat(v) ==
  CASE v.t = "float" -> [ok |-> TRUE, val |-> v]
    [] v.t = "int" -> [ok |-> TRUE, val |-> Float(v.n, 0)]
    [] IsStr(v) -> ParseFloat(v.s)
    [] OTHER -> [ok |-> FALSE, val |-> None]

(***************************************************************************)
(* FBP_REGEX and ipaddress.ip_address                                      *)
(***************************************************************************)
\* FBP_REGEX.match(s) for a str s: ^fb\.1\.\d+\.\d+$ ; `$` also matches just
\* before a newline that ends the string
FBP_REGEX(s) ==
  LET u == IF s # <<>> /\ s[Len(s)] = "\n" THEN SubSeq(s, 1, Len(s) - 1) ELSE s
      rest == SubSeq(u, 6, Len(u))
      parts == Split(rest, ".")
  IN  /\ Len(u) >= 5
      /\ SubSeq(u, 1, 5) = <<"f", "b", ".", "1", ".">>
      /\ Len(parts) = 2
      /\ parts[1] # <<>> /\ AllDigits(parts[1])
      /\ parts[2] # <<>> /\ AllDigits(parts[2])

\* one octet of IPv4Address._parse_octet
ValidOctet(o) ==
  /\ o # <<>>
  /\ AllDigits(o)
  /\ Len(o) <= 3
  /\ (Len(o) > 1 => Head(o) # "0")
  /\ DecimalValue(o) <= 255

\* ipaddress.IPv4Address(s) does not raise
ValidIPv4(s) ==
  LET octets == Split(s, ".")
  IN  Len(octets) = 4 /\ \A i \in 1..4 : ValidOctet(octets[i])

\* one group of IPv6Address._parse_hextet
ValidHextet(h) ==
  h # <<>> /\ Len(h) <= 4 /\ \A i \in 1..Len(h) : IsHexDigit(h[i])

\* ipaddress.IPv6Address(s) does not raise
ValidIPv6(s) ==
  LET scoped == \E i \in 1..Len(s) : s[i] = "%"
      cut == IF scoped THEN CHOOSE j \in 1..Len(s) :
                              s[j] = "%" /\ \A k \in 1..(j - 1) : s[k] # "%"
             ELSE Len(s) + 1
      scope == SubSeq(s, cut + 1, Len(s))
      addr == SubSeq(s, 1, cut - 1)
      raw == Split(addr, ":")
      embedded == \E i \in 1..Len(raw[Len(raw)]) : raw[Len(raw)][i] = "."
      \* an embedded IPv4 tail is replaced by the two groups it encodes
      parts == IF embedded
               THEN SubSeq(raw, 1, Len(raw) - 1) \o <<<<"0">>, <<"0">>>>
               ELSE raw
      n == Len(parts)
      skips == {i \in 2..(n - 1) : parts[i] = <<>>}
      skip == CHOOSE i \in skips : TRUE
      hi == IF parts[1] = <<>> THEN skip - 2 ELSE skip - 1
      lo == IF parts[n] = <<>> THEN n - skip - 1 ELSE n - skip
  IN  /\ ~ \E i \in 1..Len(s) : s[i] = "/"
      /\ scoped => (scope # <<>> /\ \A i \in 1..Len(scope) : scope[i] # "%")
      /\ addr # <<>>
      /\ Len(raw) >= 3
      /\ embedded => ValidIPv4(raw[Len(raw)])
      /\ n <= 9
      /\ Cardinality(skips) <= 1
      /\ IF skips # {}
         THEN /\ parts[1] = <<>> => skip = 2
              /\ parts[n] = <<>> => skip = n - 1
              /\ 8 - (hi + lo) >= 1
              /\ \A i \in 1..hi : ValidHextet(parts[i])
              /\ \A i \in (n - lo + 1)..n : ValidHextet(parts[i])
         ELSE /\ n = 8
              /\ \A i \in 1..n : ValidHextet(parts[i])

\* ipaddress.ip_address(s) returns (TRUE) or raises ValueError (FALSE)
ip_address(s) == ValidIPv4(s) \/ ValidIPv6(s)

(***************************************************************************)
(* Exceptions.  A function of the program is modelled by an operator whose *)
(* result holds the exception it raised (exc), the value it returned (ret) *)
(* and its argument objects as they are after the call.                    *)
(***************************************************************************)
NoExc == [type |-> "none", status_code |-> 0, message |-> ""]

TypeError == [type |-> "TypeError", status_code |-> 0, message |-> ""]

AttributeError == [type |-> "AttributeError", status_code |-> 0, message |-> ""]

\* raise_for_status / a failed connection of requests.post
RequestException ==
  [type |-> "RequestException", status_code |-> 0, message |-> ""]

\* the HTTPException of lines 142-148
CurrencyRequired ==
  [type |-> "HTTPException", status_code |-> 422,
   message |-> "Currency is required when value is provided."]

(***************************************************************************)
(* hash_data                                                               *)
(***************************************************************************)
hash_data(value) ==
  IF ~ Truthy(value) THEN [exc |-> NoExc, ret |-> Str(<<>>)]
  ELSE IF ~ IsStr(value) THEN [exc |-> AttributeError, ret |-> None]
  ELSE [exc |-> NoExc, ret |-> Sha256Hex(Lower(Strip(value.s)))]

(***************************************************************************)
(* extract_client_info                                                     *)
(***************************************************************************)
\* as client_ip_of, with the last entry of the chain instead of the first
client_ip_of_last(x_forwarded_for, host) ==
  IF Truthy(x_forwarded_for)
  THEN LET entries == Split(x_forwarded_for.s, ",")
       IN  Str(Strip(entries[Len(entries)]))
  ELSE host

\* line 96
client_ip_of(x_forwarded_for, host) ==
  IF Truthy(x_forwarded_for)
  THEN Str(Strip(Split(x_forwarded_for.s, ",")[1]))
  ELSE host

\* line 99
client_user_agent_of(payload, headers) ==
  Or(Get(payload.user_data, "user_agent", None),
     Get(headers, "user-agent", Str(<<>>)))

extract_client_info(request, payload) ==
  LET x_forwarded_for == Get(request.headers, "x-forwarded-for", None)
  IN  [ip |-> client_ip_of(x_forwarded_for, request.client_host),
       user_agent |-> client_user_agent_of(payload, request.headers)]

(***************************************************************************)
(* validate_and_clean_data                                                 *)
(***************************************************************************)
\* lines 112-118
validated_ip(client_ip) ==
  IF Truthy(client_ip) /\ ~ ip_address(client_ip.s) THEN Str(<<>>) ELSE client_ip

\* lines 121-124, for an fbp on which FBP_REGEX.match does not raise
validated_fbp(fbp_val) ==
  IF Truthy(fbp_val) /\ ~ FBP_REGEX(fbp_val.s) THEN Str(<<>>) ELSE fbp_val

\* lines 128-131: a new dict
cleaned_custom_data(custom_data) ==
  Restrict(custom_data,
           {k \in DOMAIN custom_data :
              /\ custom_data[k] # None
              /\ Lower(PyStr(custom_data[k])) # <<"n", "u", "l", "l">>})

\* as has_value, testing the value instead of the key
has_truthy_value(cleaned) == Truthy(Get(cleaned, "value", None))

\* line 134
has_value(cleaned) == "value" \in DOMAIN cleaned

\* as store_value, with cleaned_custom_data an alias of custom_data
store_value_aliased(objs) ==
  LET f == ToFloat(objs.cleaned_custom_data["value"])
      v == IF f.ok THEN f.val ELSE Float(0, 0)
  IN  [objs EXCEPT !.cleaned_custom_data = DictSet(@, "value", v),
                   !.custom_data = DictSet(@, "value", v)]

\* lines 135-139: the store goes to the dict cleaned_custom_data alone
store_value(objs) ==
  LET f == ToFloat(objs.cleaned_custom_data["value"])
  IN  [objs EXCEPT !.cleaned_custom_data =
         DictSet(@, "value", IF f.ok THEN f.val ELSE Float(0, 0))]

\* as currency_missing, testing the key instead of the value
currency_key_missing(cleaned) == "currency" \notin DOMAIN cleaned

\* line 141
currency_missing(cleaned) == ~ Truthy(Get(cleaned, "currency", None))

NoContext ==
  [client_ip |-> None, client_user_agent |-> None, fbp |-> None, fbc |-> None,
   custom_data |-> EmptyDict]

validate_and_clean_data(payload, client_info, request_id) ==
  LET client_ip == validated_ip(client_info.ip)
      fbp_val == Get(payload.user_data, "fbp", Str(<<>>))
      \* line 127: the payload's own dict, or a new empty one
      aliased == ~ payload.custom_data.none /\ payload.custom_data.items # EmptyDict
      custom_data == IF aliased THEN payload.custom_data.items ELSE EmptyDict
      objs0 == [custom_data |-> custom_data,
                cleaned_custom_data |-> cleaned_custom_data(custom_data)]
      objs == IF has_value(objs0.cleaned_custom_data) THEN store_value(objs0)
              ELSE objs0
      payload_after ==
        IF aliased
        THEN [payload EXCEPT !.custom_data.items = objs.custom_data]
        ELSE payload
  IN  IF Truthy(fbp_val) /\ ~ IsStr(fbp_val)
      THEN \* FBP_REGEX.match raises on a value that is no str (line 122)
           [exc |-> TypeError, ret |-> NoContext,
            payload |-> payload, client_info |-> client_info]
      ELSE IF /\ has_value(objs0.cleaned_custom_data)
              /\ currency_missing(objs.cleaned_custom_data)
      THEN [exc |-> CurrencyRequired, ret |-> NoContext,
            payload |-> payload_after, client_info |-> client_info]
      ELSE [exc |-> NoExc,
            ret |-> [client_ip |-> client_ip,
                     client_user_agent |-> client_info.user_agent,
                     fbp |-> validated_fbp(fbp_val),
                     fbc |-> Get(payload.user_data, "fbc", Str(<<>>)),
                     custom_data |-> objs.cleaned_custom_data],
            payload |-> payload_after, client_info |-> client_info]

(***************************************************************************)
(* hash_user_data                                                          *)
(***************************************************************************)
\* as pii_source, with ct read from the country
pii_source_country_twice ==
  [em |-> "email", fn |-> "first_name", ln |-> "last_name", ph |-> "phone",
   country |-> "country", ct |-> "country", zp |-> "zip",
   external_id |-> "external_id"]

\* lines 163-172: provider key -> source key
pii_source ==
  [em |-> "email", fn |-> "first_name", ln |-> "last_name", ph |-> "phone",
   country |-> "country", ct |-> "city", zp |-> "zip",
   external_id |-> "external_id"]

pii_fields(user_data) ==
  [k \in DOMAIN pii_source |-> Get(user_data, pii_source[k], Str(<<>>))]

\* line 175: the keys the comprehension keeps
pii_kept(fields) == {k \in DOMAIN fields : Truthy(fields[k])}

hash_user_data(user_data, request_id) ==
  LET fields == pii_fields(user_data)
      kept == pii_kept(fields)
  IN  IF \E k \in kept : hash_data(fields[k]).exc # NoExc
      THEN [exc |-> AttributeError, ret |-> EmptyDict, user_data |-> user_data]
      ELSE [exc |-> NoExc,
            ret |-> [k \in kept |-> hash_data(fields[k]).ret],
            user_data |-> user_data]

(***************************************************************************)
(* build_meta_payload                                                      *)
(***************************************************************************)
\* lines 188-193
initial_user_data(validated_data) ==
  [client_ip_address |-> Or(validated_data.client_ip, None),
   client_user_agent |-> Or(validated_data.client_user_agent, None),
   fbc |-> Or(validated_data.fbc, None),
   fbp |-> Or(validated_data.fbp, None)]

\* line 196: user_data.update(hashed_pii) stores into user_data alone
update_user_data(objs) ==
  [objs EXCEPT !.user_data =
     [k \in DOMAIN objs.user_data \cup DOMAIN objs.hashed_pii |->
        IF k \in DOMAIN objs.hashed_pii THEN objs.hashed_pii[k]
        ELSE objs.user_data[k]]]

\* as remove_none, with nothing removed
keep_none(user_data) == user_data

\* line 199
remove_none(user_data) ==
  Restrict(user_data, {k \in DOMAIN user_data : user_data[k] # None})

\* lines 210-211 and 216-217: a key that is set only for a truthy value
optional(key, value) ==
  IF Truthy(value) THEN [k \in {key} |-> value] ELSE EmptyDict

build_meta_payload(payload, validated_data, hashed_pii) ==
  LET objs == update_user_data([user_data |-> initial_user_data(validated_data),
                                hashed_pii |-> hashed_pii])
      event_data ==
        [event_name |-> payload.event_name,
         event_time |-> payload.event_time,
         action_source |-> payload.action_source,
         user_data |-> remove_none(objs.user_data),
         custom_data |-> validated_data.custom_data]
          @@ optional("event_source_url", payload.event_source_url)
  IN  [ret |-> [data |-> <<event_data>>]
                 @@ optional("test_event_code", payload.test_event_code),
       payload |-> payload,
       validated_data |-> validated_data,
       hashed_pii |-> objs.hashed_pii]

(***************************************************************************)
(* The inputs: what the HTTP layer hands to process_event                  *)
(***************************************************************************)
S_Purchase == Str(<<"P", "u", "r", "c", "h", "a", "s", "e">>)
S_website == Str(<<"w", "e", "b", "s", "i", "t", "e">>)
S_checkout_url == Str(<<"h", "t", "t", "p", "s", ":", "/", "/", "e", "x", "a", "m", "p", "l", "e", ".", "c", "o", "m", "/", "c", "h", "e", "c", "k", "o", "u", "t">>)
S_TEST1 == Str(<<"T", "E", "S", "T", "1">>)
S_ip4 == Str(<<"2", "0", "3", ".", "0", ".", "1", "1", "3", ".", "7">>)
S_ip4_bad == Str(<<"9", "9", "9", ".", "9", "9", "9", ".", "9", "9", "9", ".", "9", "9", "9">>)
S_ip6 == Str(<<":", ":", "1">>)
S_xff_chain == Str(<<" ", "1", "9", "8", ".", "5", "1", ".", "1", "0", "0", ".", "4", " ", ",", " ", "1", "0", ".", "0", ".", "0", ".", "1">>)
S_xff_empty_first == Str(<<",", "1", "0", ".", "0", ".", "0", ".", "1">>)
S_xff_bogus == Str(<<"u", "n", "k", "n", "o", "w", "n", ",", " ", "1", "0", ".", "0", ".", "0", ".", "1">>)
S_space == Str(<<" ">>)
S_curl == Str(<<"c", "u", "r", "l", "/", "8", ".", "0">>)
S_Mozilla == Str(<<"M", "o", "z", "i", "l", "l", "a", "/", "5", ".", "0">>)
S_fbp == Str(<<"f", "b", ".", "1", ".", "1", "5", "5", "4", "7", "6", "3", "7", "4", "1", "2", "0", "5", ".", "1", "2", "3", "4", "5", "6", "7", "8", "9", "0">>)
S_fbp_bad == Str(<<"n", "o", "t", "-", "a", "-", "c", "o", "o", "k", "i", "e">>)
S_fbp_newline == Str(<<"f", "b", ".", "1", ".", "1", "5", ".", "1", "2", "\n">>)
S_fbc == Str(<<"f", "b", ".", "1", ".", "1", "5", "5", "4", "7", "6", "3", "7", "4", "1", "2", "0", "5", ".", "A", "b", "C", "d">>)
S_null == Str(<<"n", "u", "l", "l">>)
S_NULL == Str(<<"N", "U", "L", "L">>)
S_Null == Str(<<"N", "u", "l", "l">>)
S_99_99 == Str(<<"9", "9", ".", "9", "9">>)
S_abc == Str(<<"a", "b", "c">>)
S_USD == Str(<<"U", "S", "D">>)
S_product == Str(<<"p", "r", "o", "d", "u", "c", "t">>)
S_product_123 == Str(<<"p", "r", "o", "d", "u", "c", "t", "_", "1", "2", "3">>)
S_email == Str(<<" ", "F", "o", "o", "@", "B", "a", "r", ".", "c", "o", "m", " ">>)
S_email_canonical == Str(<<"f", "o", "o", "@", "b", "a", "r", ".", "c", "o", "m">>)
S_first_name == Str(<<"J", "o", "h", "n">>)
S_last_name == Str(<<"D", "o", "e">>)
S_phone == Str(<<"+", "1", "2", "3", "4", "5", "6", "7", "8", "9", "0">>)
S_country == Str(<<"S", "E">>)
S_city == Str(<<"M", "a", "l", "m", "o">>)
S_zip == Str(<<"2", "1", "1", " ", "2", "0">>)
S_external_id == Str(<<"u", "s", "e", "r", "-", "4", "2">>)
S_blank == Str(<<" ", "\t", " ">>)

S_empty == Str(<<>>)

\* a key the client did not send
Absent == [t |-> "absent", s |-> <<>>, n |-> 0, e |-> 0]

\* the dict holding the keys of f that were sent
MakeDict(f) == Restrict(f, {k \in DOMAIN f : f[k] # Absent})

\* Optional[dict]: None, or a dict
NoDict == [none |-> TRUE, items |-> EmptyDict]

Dict(d) == [none |-> FALSE, items |-> d]

Headers(x_forwarded_for, user_agent) ==
  MakeDict(("x-forwarded-for" :> x_forwarded_for) @@ ("user-agent" :> user_agent))

BaseRequest == [client_host |-> S_ip4, headers |-> Headers(Absent, Absent)]

\* class ClientPayload, lines 43-50
BasePayload ==
  [event_name |-> S_Purchase,
   event_time |-> PyInt(1703980800),
   event_source_url |-> None,
   action_source |-> S_website,
   user_data |-> EmptyDict,
   custom_data |-> NoDict,
   test_event_code |-> None]

\* transport address, forwarded-for header, agent header, payload agent
ExtractInputs ==
  {[request |-> [client_host |-> h, headers |-> Headers(x, u)],
    payload |-> [BasePayload EXCEPT !.user_data = MakeDict([user_agent |-> a])]] :
     h \in {S_ip4, S_ip4_bad},
     x \in {Absent, S_empty, S_space, S_ip4, S_xff_chain, S_xff_empty_first,
            S_xff_bogus},
     u \in {Absent, S_empty, S_curl},
     a \in {Absent, None, S_empty, S_space, S_Mozilla, PyInt(0)}}

CustomDataSamples ==
  {NoDict, Dict(EmptyDict)} \cup
  {Dict(MakeDict([value |-> v, currency |-> c, content_type |-> o])) :
     v \in {Absent, None, S_null, S_NULL, S_empty, S_99_99, S_abc,
            Float(9999, -2), PyInt(0), List(S_product_123.s, 1)},
     c \in {Absent, None, S_empty, S_Null, S_USD, S_space},
     o \in {Absent, S_NULL, S_product}}

\* the custom attributes alone
CustomInputs ==
  {[request |-> BaseRequest,
    payload |-> [BasePayload EXCEPT !.custom_data = cd]] :
     cd \in CustomDataSamples}

\* origin address, fbp and fbc, with and without a currency failure
SanitizeInputs ==
  {[request |-> [BaseRequest EXCEPT !.headers = Headers(x, Absent)],
    payload |-> [BasePayload EXCEPT
                   !.user_data = MakeDict([fbp |-> p, fbc |-> c]),
                   !.custom_data = cd]] :
     x \in {Absent, S_empty, S_space, S_ip4_bad, S_ip6},
     p \in {Absent, None, S_empty, S_fbp, S_fbp_bad, S_fbp_newline, PyInt(123)},
     c \in {Absent, None, S_empty, S_fbc, S_space},
     cd \in {NoDict,
             Dict([value |-> S_99_99, currency |-> S_USD]),
             Dict([value |-> S_99_99])}}

IdentityValues ==
  [email |-> S_email, first_name |-> S_first_name, last_name |-> S_last_name,
   phone |-> S_phone, country |-> S_country, city |-> S_city, zip |-> S_zip,
   external_id |-> S_external_id]

\* every subset of the eight identity keys, and every kind of value under each
IdentityInputs ==
  {[request |-> BaseRequest,
    payload |-> [BasePayload EXCEPT !.user_data = Restrict(IdentityValues, ks)]] :
     ks \in SUBSET DOMAIN IdentityValues}
  \cup
  {[request |-> BaseRequest,
    payload |-> [BasePayload EXCEPT
                   !.user_data = DictSet(Restrict(IdentityValues, ks), k, v)]] :
     k \in DOMAIN IdentityValues,
     v \in {None, S_empty, S_space, S_blank, S_email_canonical, PyInt(0), PyInt(123)},
     ks \in {{}, DOMAIN IdentityValues}}

\* the optional fields of the outbound document
AssembleInputs ==
  {[request |-> [BaseRequest EXCEPT !.headers = Headers(x, u)],
    payload |-> [BasePayload EXCEPT
                   !.event_source_url = url,
                   !.test_event_code = code,
                   !.user_data = MakeDict([fbp |-> p, fbc |-> p, email |-> m]),
                   !.custom_data = Dict([value |-> Float(9999, -2),
                                         currency |-> S_USD])]] :
     x \in {Absent, S_space},
     u \in {Absent, S_curl},
     url \in {None, S_empty, S_checkout_url},
     code \in {None, S_empty, S_TEST1},
     p \in {Absent, S_empty, S_fbp},
     m \in {Absent, S_blank, S_email}}

Inputs ==
  ExtractInputs \cup CustomInputs \cup SanitizeInputs \cup IdentityInputs
    \cup AssembleInputs

\* a few requests with different outcomes, to run side by side
ConcurrentInputs ==
  {[request |-> BaseRequest,
    payload |-> [BasePayload EXCEPT !.user_data = ud, !.custom_data = cd]] :
     ud \in {[email |-> S_email, fbp |-> S_fbp],
             [phone |-> S_phone, fbp |-> S_fbp_bad]},
     cd \in {Dict([value |-> S_99_99, currency |-> S_USD]),
             Dict([value |-> S_abc])}}
  \cup {[request |-> BaseRequest,
         payload |-> [BasePayload EXCEPT !.user_data = [email |-> PyInt(123)]]]}

(***************************************************************************)
(* process_event: one invocation per request, its local variables in       *)
(* req[r].  A stage is one step; requests interleave between stages.       *)
(***************************************************************************)
MaxRequests == 2

NoClientInfo == [ip |-> None, user_agent |-> None]

NoMetaPayload == [data |-> <<>>]

NoResponse == [status_code |-> 0, request_id |-> 0, message |-> ""]

\* the invocation's frame at entry to process_event; request_id (line 244,
\* a fresh uuid4) is the request's index
NewInvocation(r, input) ==
  [pc |-> "extract",
   request |-> input.request,
   payload |-> input.payload,
   request_id |-> r,
   client_info |-> NoClientInfo,
   validated_data |-> NoContext,
   hashed_pii |-> EmptyDict,
   meta_payload |-> NoMetaPayload,
   invoked |-> {},
   raised |-> {},
   response |-> NoResponse]

\* received keeps what the HTTP layer handed over; no step changes it
Init ==
  /\ received \in [{1} -> Inputs]
  /\ req = [r \in {1} |-> NewInvocation(r, received[r])]
  /\ outbox = {}

InitConcurrent ==
  /\ received \in [1..MaxRequests -> ConcurrentInputs]
  /\ req = [r \in 1..MaxRequests |-> NewInvocation(r, received[r])]
  /\ outbox = {}

\* as frame, with the locals kept in one module-level object
shared_frame(rq, r) == rq[1]

\* the frame a stage of invocation r reads and writes: its own locals
frame(rq, r) == rq[r]

\* as process_event_after, with the exception swallowed and the pipeline going on
process_event_swallow(next, exc) == next

\* lines 247-289: where the invocation goes after a stage; an exception
\* raised inside the try block ends it (only RequestException is caught,
\* and re-raised as an HTTPException)
process_event_after(next, exc) == IF exc = NoExc THEN next ELSE "done"

\* what the caller receives for an exception leaving process_event
\* (lines 275-289; FastAPI answers 500 for what is no HTTPException)
response_for(exc, request_id) ==
  CASE exc.type = "HTTPException" ->
         [status_code |-> exc.status_code, request_id |-> request_id,
          message |-> exc.message]
    [] exc.type = "RequestException" ->
         [status_code |-> 502, request_id |-> request_id,
          message |-> "Failed to send event to Meta CAPI"]
    [] OTHER ->
         [status_code |-> 500, request_id |-> 0,
          message |-> "Internal Server Error"]

\* lines 268-273
success_response(request_id) ==
  [status_code |-> 200, request_id |-> request_id,
   message |-> "Event processed and sent to Meta CAPI successfully"]

\* the frame after `stage` was called and ended with exc.  invoked and
\* raised record the calls made and the exceptions they raised.
Advance(f, stage, next, exc) ==
  LET pc == process_event_after(next, exc)
  IN  [f EXCEPT !.pc = pc,
                !.invoked = @ \cup {stage},
                !.raised = IF exc = NoExc THEN @
                           ELSE @ \cup {[stage |-> stage, exc |-> exc]},
                !.response = IF pc = "done" /\ exc # NoExc
                             THEN response_for(exc, f.request_id) ELSE @]

\* line 249
Extract(r) ==
  LET f == frame(req, r)
  IN  /\ f.pc = "extract"
      /\ req' = [req EXCEPT ![r] =
           [Advance(f, "extract_client_info", "validate", NoExc) EXCEPT
              !.client_info = extract_client_info(f.request, f.payload)]]
      /\ UNCHANGED <<outbox, received>>

\* line 252
Validate(r) ==
  LET f == frame(req, r)
      res == validate_and_clean_data(f.payload, f.client_info, f.request_id)
  IN  /\ f.pc = "validate"
      /\ req' = [req EXCEPT ![r] =
           [Advance(f, "validate_and_clean_data", "hash", res.exc) EXCEPT
              !.payload = res.payload,
              !.client_info = res.client_info,
              !.validated_data = res.ret]]
      /\ UNCHANGED <<outbox, received>>

\* line 255
Hash(r) ==
  LET f == frame(req, r)
      res == hash_user_data(f.payload.user_data, f.request_id)
  IN  /\ f.pc = "hash"
      /\ req' = [req EXCEPT ![r] =
           [Advance(f, "hash_user_data", "build", res.exc) EXCEPT
              !.payload.user_data = res.user_data,
              !.hashed_pii = res.ret]]
      /\ UNCHANGED <<outbox, received>>

\* line 258
Build(r) ==
  LET f == frame(req, r)
      res == build_meta_payload(f.payload, f.validated_data, f.hashed_pii)
  IN  /\ f.pc = "build"
      /\ req' = [req EXCEPT ![r] =
           [Advance(f, "build_meta_payload", "post", NoExc) EXCEPT
              !.payload = res.payload,
              !.validated_data = res.validated_data,
              !.hashed_pii = res.hashed_pii,
              !.meta_payload = res.ret]]
      /\ UNCHANGED <<outbox, received>>

\* line 263: the document leaves for the ingestion endpoint
Post(r) ==
  LET f == frame(req, r)
  IN  /\ f.pc = "post"
      /\ outbox' = outbox \cup {[request_id |-> f.request_id, json |-> f.meta_payload]}
      /\ req' = [req EXCEPT ![r] = Advance(f, "requests.post", "await", NoExc)]
      /\ UNCHANGED received

\* lines 264-273: the endpoint answered with success
PostSucceeded(r) ==
  LET f == frame(req, r)
  IN  /\ f.pc = "await"
      /\ req' = [req EXCEPT ![r] =
           [f EXCEPT !.pc = "done", !.response = success_response(f.request_id)]]
      /\ UNCHANGED <<outbox, received>>

\* lines 264, 275-289: a timeout, a failed connection or an error status
PostFailed(r) ==
  LET f == frame(req, r)
  IN  /\ f.pc = "await"
      /\ req' = [req EXCEPT ![r] =
           Advance(f, "raise_for_status", "done", RequestException)]
      /\ UNCHANGED <<outbox, received>>

Next ==
  \/ \E r \in DOMAIN req : Extract(r)
  \/ \E r \in DOMAIN req : Validate(r)
  \/ \E r \in DOMAIN req : Hash(r)
  \/ \E r \in DOMAIN req : Build(r)
  \/ \E r \in DOMAIN req : Post(r)
  \/ \E r \in DOMAIN req : PostSucceeded(r)
  \/ \E r \in DOMAIN req : PostFailed(r)

Spec == Init /\ [][Next]_vars

SpecConcurrent == InitConcurrent /\ [][Next]_vars

(***************************************************************************)
(* Properties                                                              *)
(***************************************************************************)
Returned(f, stage) ==
  stage \in f.invoked /\ \A x \in f.raised : x.stage # stage

Raised(f, stage, exc) == [stage |-> stage, exc |-> exc] \in f.raised

\* an empty value: None, the empty string or a zero
Empty(v) == v \in {None, Str(<<>>), PyInt(0)}

\* C1: when validate_and_clean_data fails with CurrencyRequired, the run never
\* calls hash_user_data or build_meta_payload, forwards no document, and the
\* caller receives that failure.
C1_SanitizeFailureAborts ==
  \A r \in DOMAIN req :
    LET f == req[r]
    IN  Raised(f, "validate_and_clean_data", CurrencyRequired) =>
          /\ "hash_user_data" \notin f.invoked
          /\ "build_meta_payload" \notin f.invoked
          /\ "requests.post" \notin f.invoked
          /\ \A m \in outbox : m.request_id # r
          /\ f.pc = "done"
          /\ f.response = [status_code |-> 422, request_id |-> r,
                           message |-> CurrencyRequired.message]

C1_Witness ==
  \E r \in DOMAIN req :
    /\ Raised(req[r], "validate_and_clean_data", CurrencyRequired)
    /\ req[r].pc = "done"

\* the custom attributes as received hold `value` and no `currency`
ValueWithoutCurrencyKey(r) ==
  LET cd == received[r].payload.custom_data
  IN  ~ cd.none /\ "value" \in DOMAIN cd.items /\ "currency" \notin DOMAIN cd.items

NullLike(v) == v = None \/ Lower(PyStr(v)) = <<"n", "u", "l", "l">>

PricedWithCurrency(custom_data) ==
  "value" \in DOMAIN custom_data =>
    /\ "currency" \in DOMAIN custom_data
    /\ ~ Empty(custom_data["currency"])
    /\ ~ NullLike(custom_data["currency"])

\* C3: in every SanitizedContext validate_and_clean_data returns, and in the
\* custom_data of every document built or forwarded, `value` comes with a
\* non-empty `currency`.
C3_ValueImpliesCurrency ==
  /\ \A r \in DOMAIN req :
       /\ Returned(req[r], "validate_and_clean_data")
            => PricedWithCurrency(req[r].validated_data.custom_data)
       /\ "build_meta_payload" \in req[r].invoked
            => PricedWithCurrency(req[r].meta_payload.data[1].custom_data)
  /\ \A m \in outbox : PricedWithCurrency(m.json.data[1].custom_data)

C3_Witness ==
  \E m \in outbox :
    /\ "value" \in DOMAIN m.json.data[1].custom_data
    /\ m.json.data[1].custom_data["currency"] = S_USD

\* the eight pairs of source key and provider key
IdentityPairs ==
  {<<"email", "em">>, <<"first_name", "fn">>, <<"last_name", "ln">>,
   <<"phone", "ph">>, <<"country", "country">>, <<"city", "ct">>,
   <<"zip", "zp">>, <<"external_id", "external_id">>}

\* C4: the HashedIdentity hash_user_data returns holds a provider key exactly
\* when its source key is present with a non-empty value, and holds under it
\* hash_data of the source value, never the source value itself.
C4_HashedIdentityKeys ==
  \A r \in DOMAIN req :
    LET f == req[r]
        user_data == received[r].payload.user_data
    IN  Returned(f, "hash_user_data") =>
          \A p \in IdentityPairs :
            /\ p[2] \in DOMAIN f.hashed_pii
                 <=> (p[1] \in DOMAIN user_data /\ ~ Empty(user_data[p[1]]))
            /\ p[2] \in DOMAIN f.hashed_pii =>
                 /\ f.hashed_pii[p[2]] = hash_data(user_data[p[1]]).ret
                 /\ f.hashed_pii[p[2]] # user_data[p[1]]
                 /\ f.hashed_pii[p[2]].t = "sha256"

C4_Witness ==
  \E r \in DOMAIN req :
    /\ Returned(req[r], "hash_user_data")
    /\ received[r].payload.user_data = DictSet(IdentityValues, "city", S_empty)
    /\ DOMAIN req[r].hashed_pii = DOMAIN pii_fields(EmptyDict) \ {"ct"}
    /\ req[r].hashed_pii["em"] = Sha256Hex(S_email_canonical.s)

\* the forwarded document of a request, and the document it has built
Documents(r) ==
  {m.json : m \in {x \in outbox : x.request_id = r}}
    \cup (IF "build_meta_payload" \in req[r].invoked THEN {req[r].meta_payload}
          ELSE {})

\* C5: no entry of a document's user_data is null or the empty string, and
\* event_source_url and test_event_code are present only when the received
\* event held a non-empty one.
C5_NoEmptyOptionalFields ==
  \A r \in DOMAIN req :
    \A doc \in Documents(r) :
      LET event == doc.data[1]
          payload == received[r].payload
      IN  /\ \A k \in DOMAIN event.user_data :
               event.user_data[k] \notin {None, Str(<<>>)}
          /\ "event_source_url" \in DOMAIN event
               => payload.event_source_url \notin {None, Str(<<>>)}
          /\ "test_event_code" \in DOMAIN doc
               => payload.test_event_code \notin {None, Str(<<>>)}

C5_Witness ==
  \E r \in DOMAIN req :
    \E m \in outbox :
      /\ m.request_id = r
      /\ received[r].payload.event_source_url = S_empty
      /\ received[r].payload.test_event_code = S_TEST1
      /\ req[r].validated_data.fbp = S_empty
      /\ DOMAIN m.json = {"data", "test_event_code"}
      /\ DOMAIN m.json.data[1].user_data = {"client_ip_address", "em"}

\* an origin address / an fbp that is not empty and not of the valid form
InvalidAddress(v) == ~ Empty(v) /\ ~ ip_address(v.s)

InvalidFbp(v) == ~ Empty(v) /\ ~ (v.t = "str" /\ FBP_REGEX(v.s))

\* C6 as claimed: validate_and_clean_data succeeds or fails as it does with an
\* invalid address and an invalid fbp replaced by the empty string; on success
\* the context holds the empty string for an invalid address or fbp, a valid
\* one unchanged, and fbc unchanged.
C6_InvalidFieldsNeverFail ==
  \A r \in DOMAIN req :
    LET f == req[r]
        payload == received[r].payload
        client_info == extract_client_info(received[r].request, payload)
        fbp == Get(payload.user_data, "fbp", Str(<<>>))
        fbc == Get(payload.user_data, "fbc", Str(<<>>))
        emptied ==
          validate_and_clean_data(
            IF InvalidFbp(fbp)
            THEN [payload EXCEPT !.user_data = DictSet(@, "fbp", Str(<<>>))]
            ELSE payload,
            IF InvalidAddress(client_info.ip)
            THEN [client_info EXCEPT !.ip = Str(<<>>)]
            ELSE client_info,
            r)
    IN  "validate_and_clean_data" \in f.invoked =>
          /\ Returned(f, "validate_and_clean_data") <=> emptied.exc = NoExc
          /\ \A x \in f.raised :
               x.stage = "validate_and_clean_data" => x.exc = emptied.exc
          /\ Returned(f, "validate_and_clean_data") =>
               /\ f.validated_data.client_ip =
                    IF InvalidAddress(client_info.ip) THEN Str(<<>>)
                    ELSE client_info.ip
               /\ f.validated_data.fbp =
                    IF InvalidFbp(fbp) THEN Str(<<>>) ELSE fbp
               /\ f.validated_data.fbc = fbc

\* C7 as claimed: a source value that is empty once canonicalized gets no
\* entry, and no HashedIdentity or document carries the digest of the empty
\* string.
C7_NoDigestOfEmptyString ==
  \A r \in DOMAIN req :
    LET f == req[r]
        user_data == received[r].payload.user_data
    IN  /\ Returned(f, "hash_user_data") =>
             /\ \A p \in IdentityPairs :
                  (p[1] \in DOMAIN user_data /\ user_data[p[1]].t = "str"
                     /\ Strip(user_data[p[1]].s) = <<>>)
                    => p[2] \notin DOMAIN f.hashed_pii
             /\ \A k \in DOMAIN f.hashed_pii : f.hashed_pii[k] # Sha256Hex(<<>>)
        /\ \A doc \in Documents(r) :
             \A k \in DOMAIN doc.data[1].user_data :
               doc.data[1].user_data[k] # Sha256Hex(<<>>)

\* the agent string both statements of C8 give
ClaimedAgent(r) ==
  LET user_data == received[r].payload.user_data
      headers == received[r].request.headers
  IN  IF "user_agent" \in DOMAIN user_data /\ ~ Empty(user_data["user_agent"])
      THEN user_data["user_agent"]
      ELSE IF "user-agent" \in DOMAIN headers THEN headers["user-agent"]
      ELSE Str(<<>>)

\* the first comma-separated entry of a header value, trimmed
FirstEntry(header) ==
  LET n == IF \E i \in 1..Len(header.s) : header.s[i] = ","
           THEN (CHOOSE i \in 1..Len(header.s) :
                   header.s[i] = "," /\ \A j \in 1..(i - 1) : header.s[j] # ",") - 1
           ELSE Len(header.s)
  IN  Str(Strip(SubSeq(header.s, 1, n)))

\* C8 as claimed: the origin address is the trimmed first entry of the
\* forwarded-for header whenever that header is present, otherwise the
\* transport address; the agent is the payload's if non-empty, else the agent
\* header, else the empty string.
C8_ForwardedForWheneverPresent ==
  \A r \in DOMAIN req :
    LET f == req[r]
        headers == received[r].request.headers
    IN  "extract_client_info" \in f.invoked =>
          /\ f.client_info.ip =
               IF "x-forwarded-for" \in DOMAIN headers
               THEN FirstEntry(headers["x-forwarded-for"])
               ELSE received[r].request.client_host
          /\ f.client_info.user_agent = ClaimedAgent(r)

\* C8 as amended: the origin address is the trimmed first entry of the
\* forwarded-for header whenever that header is present and not the empty
\* string, otherwise (absent or empty) the transport address; the agent as
\* claimed.
C8_ForwardedForWhenNonEmpty ==
  \A r \in DOMAIN req :
    LET f == req[r]
        headers == received[r].request.headers
    IN  "extract_client_info" \in f.invoked =>
          /\ f.client_info.ip =
               IF /\ "x-forwarded-for" \in DOMAIN headers
                  /\ headers["x-forwarded-for"] # Str(<<>>)
               THEN FirstEntry(headers["x-forwarded-for"])
               ELSE received[r].request.client_host
          /\ f.client_info.user_agent = ClaimedAgent(r)

C8_Witness ==
  \E r \in DOMAIN req :
    /\ "extract_client_info" \in req[r].invoked
    /\ received[r].request.headers =
         Headers(S_xff_chain, S_curl)
    /\ received[r].request.client_host = S_ip4_bad
    /\ req[r].client_info.ip.s = <<"1", "9", "8", ".", "5", "1", ".", "1", "0", "0", ".", "4">>
    /\ req[r].client_info.user_agent = S_curl

\* what process_event does with one input when it runs alone
Alone(input, request_id) ==
  LET client_info == extract_client_info(input.request, input.payload)
      validated == validate_and_clean_data(input.payload, client_info, request_id)
      hashed == hash_user_data(input.payload.user_data, request_id)
      built == build_meta_payload(input.payload, validated.ret, hashed.ret)
  IN  IF validated.exc # NoExc
      THEN [sent |-> {}, failure |-> response_for(validated.exc, request_id)]
      ELSE IF hashed.exc # NoExc
      THEN [sent |-> {}, failure |-> response_for(hashed.exc, request_id)]
      ELSE [sent |-> {[request_id |-> request_id, json |-> built.ret]},
            failure |-> NoResponse]

\* C9: with the stages of several requests interleaved, each request ends
\* with the document or the failure it has when processed alone.
C9_OutcomeAsWhenAlone ==
  \A r \in DOMAIN req :
    LET f == req[r]
        alone == Alone(received[r], r)
    IN  f.pc \in {"await", "done"} =>
          /\ {m \in outbox : m.request_id = r} = alone.sent
          /\ alone.sent = {} => f.response = alone.failure
          /\ alone.sent # {} => f.response.status_code \in {0, 200, 502}

C9_Witness ==
  /\ \A r \in DOMAIN req : req[r].pc = "done"
  /\ req[1].response.status_code = 422
  /\ req[2].response.status_code = 200
  /\ received[1] # received[2]

\* C10: every stage leaves its inputs as they were handed to it: the event
\* and the request as received, the RequestSignals as extracted, the
\* SanitizedContext and the HashedIdentity as returned.
C10_StagesLeaveInputsUnchanged ==
  \A r \in DOMAIN req :
    LET f == req[r]
        client_info ==
          extract_client_info(received[r].request, received[r].payload)
    IN  /\ f.payload = received[r].payload
        /\ f.request = received[r].request
        /\ "extract_client_info" \in f.invoked => f.client_info = client_info
        /\ Returned(f, "validate_and_clean_data") =>
             f.validated_data =
               validate_and_clean_data(received[r].payload, client_info,
                                       r).ret
        /\ Returned(f, "hash_user_data") =>
             f.hashed_pii =
               hash_user_data(received[r].payload.user_data, r).ret

C10_Witness ==
  \E r \in DOMAIN req :
    /\ "build_meta_payload" \in req[r].invoked
    /\ req[r].payload.custom_data =
         Dict([value |-> S_99_99, currency |-> S_USD, content_type |-> S_NULL])
    /\ req[r].validated_data.custom_data =
         [value |-> Float(9999, -2), currency |-> S_USD]

====
